---- MODULE Spec2Model ----
(***************************************************************************)
(* A model of cpp-tree-sitter (include/tree_sitter/cpp-tree-sitter.hpp):   *)
(* the owning wrappers tree / parser, the node view and the cursor, over   *)
(* an abstract parsing engine (the ts_* operations the header calls).      *)
(***************************************************************************)
EXTENDS Integers, Sequences, FiniteSets, TLC

(* Bounds of the model. *)
MaxNodes == 3
MaxTrees == 2
MaxLen == 2

Nodes == 1..MaxNodes
Handles == 1..MaxTrees
Trees == {"t1", "t2"}
Bytes == {"a", "b"}
Cursors == {"c1", "c2"}
Addrs == 1..Cardinality(Cursors)

VARIABLES
    parent,     \* engine tree storage: parent id of every node (0 for the root)
    kind,       \* engine tree storage: "plain", "missing" or "error" per node
    field,      \* engine tree storage: field id of every node in its parent (0: none)
    heap,       \* engine cursor storage: address -> position stack (<<>>: not allocated)
    cur,        \* cursor wrappers: the address held by cursor::impl (0: not constructed)
    seed,       \* per cursor, the node it was most recently seeded at
    fresh,      \* per cursor, the stack of a cursor made by get_cursor() at the last
                \* seed and driven by the same navigation calls
    walk,       \* per cursor, the node reached by the corresponding node operations
    madeBy,     \* per cursor, how it was last seeded
    store,      \* engine tree handles: length of the text parsed, the wrapper the
                \* handle was first given to, number of ts_tree_delete calls on it
    made,       \* number of tree handles the engine has handed out
    tw,         \* tree wrappers: in scope or not, and the handle held by tree::impl
    text,       \* the buffer a tree was parsed from
    span,       \* the byte range of a node of that tree
    pc,         \* "run", or "abort" once the process has been terminated
    last        \* the most recent call: operation, receiver, argument, result

vars == <<parent, kind, field, heap, cur, seed, fresh, walk, madeBy,
          store, made, tw, text, span, pc, last>>

treeVars == <<parent, kind, field>>
cursorVars == <<heap, cur, seed, fresh, walk, madeBy>>
ownerVars == <<store, made, tw>>
rangeVars == <<text, span>>

-----------------------------------------------------------------------------
(* TSNode: a struct of scalars; id 0 is the null node. *)
TSNode(k) == [id |-> k]

NullId == 0

\* node::is_null
is_null(n) == n.id = NullId

\* node::get_id: the numeric value of impl.id
get_id(n) == n.id

(* The engine's tree: every shape over Nodes with node 1 the root and every
   other node's parent of a smaller id; children are ordered by id. *)
TreeShapes ==
    {p \in [Nodes -> 0..MaxNodes] :
        /\ p[1] = 0
        /\ \A k \in Nodes \ {1} : p[k] \in 1..(k - 1)}

Kids(k) == {c \in Nodes : parent[c] = k}

ts_tree_root_node == TSNode(1)

ts_node_parent(n) == IF is_null(n) THEN TSNode(NullId) ELSE TSNode(parent[n.id])

ts_node_child_count(n) == Cardinality(Kids(n.id))

ts_node_child(n, i) ==
    LET kids == Kids(n.id)
    IN  IF i \in 0..(Cardinality(kids) - 1)
        THEN TSNode(CHOOSE c \in kids : Cardinality({d \in kids : d < c}) = i)
        ELSE TSNode(NullId)

ts_node_next_sibling(n) ==
    LET later == IF is_null(n) \/ parent[n.id] = 0 THEN {}
                 ELSE {c \in Kids(parent[n.id]) : c > n.id}
    IN  IF later = {} THEN TSNode(NullId)
        ELSE TSNode(CHOOSE c \in later : \A d \in later : c <= d)

ts_node_prev_sibling(n) ==
    LET earlier == IF is_null(n) \/ parent[n.id] = 0 THEN {}
                   ELSE {c \in Kids(parent[n.id]) : c < n.id}
    IN  IF earlier = {} THEN TSNode(NullId)
        ELSE TSNode(CHOOSE c \in earlier : \A d \in earlier : c >= d)

\* node::get_parent / get_next_sibling / get_previous_sibling / get_child
get_parent(n) == ts_node_parent(n)
get_next_sibling(n) == ts_node_next_sibling(n)
get_previous_sibling(n) == ts_node_prev_sibling(n)
get_num_children(n) == ts_node_child_count(n)
get_child(n, position) == ts_node_child(n, position)

-----------------------------------------------------------------------------
(* The engine's cursor: a position stack, seed at the bottom, current node
   on top, kept in engine-allocated storage the TSTreeCursor points at. *)
Top(s) == IF s = <<>> THEN NullId ELSE s[Len(s)]

Alloc(h) == CHOOSE a \in Addrs : h[a] = <<>> /\ \A b \in Addrs : b < a => h[b] # <<>>

ts_tree_cursor_new(h, n) ==
    LET a == Alloc(h) IN [heap |-> [h EXCEPT ![a] = <<n.id>>], impl |-> a]

ts_tree_cursor_copy(h, a) ==
    LET b == Alloc(h) IN [heap |-> [h EXCEPT ![b] = h[a]], impl |-> b]

ts_tree_cursor_delete(h, a) == [h EXCEPT ![a] = <<>>]

ts_tree_cursor_reset(h, a, n) == [h EXCEPT ![a] = <<n.id>>]

ts_tree_cursor_current_node(h, a) == TSNode(Top(h[a]))

ts_tree_cursor_goto_parent(h, a) ==
    IF Len(h[a]) > 1
    THEN [ok |-> TRUE, heap |-> [h EXCEPT ![a] = SubSeq(h[a], 1, Len(h[a]) - 1)]]
    ELSE [ok |-> FALSE, heap |-> h]

ts_tree_cursor_goto_first_child(h, a) ==
    LET c == ts_node_child(TSNode(Top(h[a])), 0)
    IN  IF is_null(c) THEN [ok |-> FALSE, heap |-> h]
        ELSE [ok |-> TRUE, heap |-> [h EXCEPT ![a] = Append(h[a], c.id)]]

ts_tree_cursor_goto_next_sibling(h, a) ==
    LET s == ts_node_next_sibling(TSNode(Top(h[a])))
    IN  IF Len(h[a]) <= 1 \/ is_null(s) THEN [ok |-> FALSE, heap |-> h]
        ELSE [ok |-> TRUE,
              heap |-> [h EXCEPT ![a] = Append(SubSeq(h[a], 1, Len(h[a]) - 1), s.id)]]

-----------------------------------------------------------------------------
(* class cursor: each member hands its impl to the engine operation. *)

\* cursor::cursor(TSNode)
cursor_from_node(h, n) == ts_tree_cursor_new(h, n)

\* A constructor that copies the TSTreeCursor struct instead of asking the
\* engine for a copy: both wrappers then point at one position stack.
cursor_from_impl_shallow(h, a) == [heap |-> h, impl |-> a]

\* cursor::cursor(const TSTreeCursor &)
cursor_from_impl(h, a) == ts_tree_cursor_copy(h, a)

\* cursor::~cursor
cursor_delete(h, a) == ts_tree_cursor_delete(h, a)

\* A reset that pushes the node on the stack it finds.
reset_keeping_stack(h, a, n) == [h EXCEPT ![a] = Append(h[a], n.id)]

\* cursor::reset
reset(h, a, n) == ts_tree_cursor_reset(h, a, n)

\* cursor::copy
copy(h, a) == cursor_from_impl(h, a)

\* cursor::get_current_node
get_current_node(h, a) == ts_tree_cursor_current_node(h, a)

\* A goto_parent that follows the tree's parent link of the current node.
goto_parent_by_node(h, a) ==
    LET p == ts_node_parent(ts_tree_cursor_current_node(h, a))
    IN  IF is_null(p) THEN [ok |-> FALSE, heap |-> h]
        ELSE [ok |-> TRUE, heap |-> ts_tree_cursor_reset(h, a, p)]

\* cursor::goto_parent
goto_parent(h, a) == ts_tree_cursor_goto_parent(h, a)

\* A goto_next_sibling that follows the tree's sibling link of the current node.
goto_next_sibling_by_node(h, a) ==
    LET s == ts_node_next_sibling(ts_tree_cursor_current_node(h, a))
    IN  IF is_null(s) THEN [ok |-> FALSE, heap |-> h]
        ELSE [ok |-> TRUE,
              heap |-> [h EXCEPT ![a] = Append(SubSeq(h[a], 1, Len(h[a]) - 1), s.id)]]

\* cursor::goto_next_sibling
goto_next_sibling(h, a) == ts_tree_cursor_goto_next_sibling(h, a)

\* A goto_first_child that descends to the last child (the engine's
\* goto_last_child step, which the header leaves commented out).
goto_first_child_as_last(h, a) ==
    LET top == TSNode(Top(h[a]))
        c == ts_node_child(top, ts_node_child_count(top) - 1)
    IN  IF is_null(c) THEN [ok |-> FALSE, heap |-> h]
        ELSE [ok |-> TRUE, heap |-> [h EXCEPT ![a] = Append(h[a], c.id)]]

\* cursor::goto_first_child
goto_first_child(h, a) == ts_tree_cursor_goto_first_child(h, a)

\* node::get_cursor
get_cursor(h, n) == cursor_from_node(h, n)

-----------------------------------------------------------------------------
(* Cursor operations as steps of a client holding the cursors. *)

NoHeap == [a \in Addrs |-> <<>>]
NoCall == [op |-> "none", c |-> "c1", src |-> "c1", n |-> TSNode(NullId),
           pre |-> TSNode(NullId), ret |-> TRUE, fret |-> TRUE]

\* The position stack of a cursor just obtained from n.get_cursor().
FreshAt(n) == LET r == get_cursor(NoHeap, n) IN r.heap[r.impl]

Call(op, c, n, ret, fret) ==
    [op |-> op, c |-> c, src |-> c, n |-> n,
     pre |-> IF cur[c] = 0 THEN TSNode(NullId) ELSE get_current_node(heap, cur[c]),
     ret |-> ret, fret |-> fret]

\* cursor c = n.get_cursor();
GetCursor(c, n) ==
    /\ cur[c] = 0
    /\ LET r == get_cursor(heap, n)
       IN  /\ heap' = r.heap
           /\ cur' = [cur EXCEPT ![c] = r.impl]
    /\ seed' = [seed EXCEPT ![c] = n]
    /\ fresh' = [fresh EXCEPT ![c] = FreshAt(n)]
    /\ walk' = [walk EXCEPT ![c] = n]
    /\ madeBy' = [madeBy EXCEPT ![c] = "get_cursor"]
    /\ last' = Call("get_cursor", c, n, TRUE, TRUE)
    /\ UNCHANGED <<treeVars, ownerVars, rangeVars, pc>>

\* cursor d = c.copy();
Copy(c, d) ==
    /\ cur[c] # 0
    /\ cur[d] = 0
    /\ LET r == copy(heap, cur[c])
       IN  /\ heap' = r.heap
           /\ cur' = [cur EXCEPT ![d] = r.impl]
    /\ seed' = [seed EXCEPT ![d] = seed[c]]
    /\ fresh' = [fresh EXCEPT ![d] = fresh[c]]
    /\ walk' = [walk EXCEPT ![d] = walk[c]]
    /\ madeBy' = [madeBy EXCEPT ![d] = "copy"]
    /\ last' = [Call("copy", d, TSNode(NullId), TRUE, TRUE) EXCEPT
                    !.src = c, !.pre = get_current_node(heap, cur[c])]
    /\ UNCHANGED <<treeVars, ownerVars, rangeVars, pc>>

\* c goes out of scope.
Destroy(c) ==
    /\ cur[c] # 0
    /\ heap' = cursor_delete(heap, cur[c])
    /\ cur' = [cur EXCEPT ![c] = 0]
    /\ seed' = [seed EXCEPT ![c] = TSNode(NullId)]
    /\ fresh' = [fresh EXCEPT ![c] = <<>>]
    /\ walk' = [walk EXCEPT ![c] = TSNode(NullId)]
    /\ madeBy' = [madeBy EXCEPT ![c] = "none"]
    /\ last' = Call("destroy", c, TSNode(NullId), TRUE, TRUE)
    /\ UNCHANGED <<treeVars, ownerVars, rangeVars, pc>>

\* c.reset(n);
Reset(c, n) ==
    /\ cur[c] # 0
    /\ heap' = reset(heap, cur[c], n)
    /\ seed' = [seed EXCEPT ![c] = n]
    /\ fresh' = [fresh EXCEPT ![c] = FreshAt(n)]
    /\ walk' = [walk EXCEPT ![c] = n]
    /\ madeBy' = [madeBy EXCEPT ![c] =
                    IF Len(heap[cur[c]]) > 1 THEN "reset_after_steps" ELSE "reset"]
    /\ last' = Call("reset", c, n, TRUE, TRUE)
    /\ UNCHANGED <<treeVars, ownerVars, rangeVars, pc, cur>>

\* c.goto_parent();
GotoParent(c) ==
    /\ cur[c] # 0
    /\ LET r == goto_parent(heap, cur[c])
           g == goto_parent(fresh, c)
       IN  /\ heap' = r.heap
           /\ fresh' = g.heap
           /\ walk' = IF r.ok THEN [walk EXCEPT ![c] = get_parent(walk[c])] ELSE walk
           /\ last' = Call("goto_parent", c, TSNode(NullId), r.ok, g.ok)
    /\ UNCHANGED <<treeVars, ownerVars, rangeVars, pc, cur, seed, madeBy>>

\* c.goto_next_sibling();
GotoNextSibling(c) ==
    /\ cur[c] # 0
    /\ LET r == goto_next_sibling(heap, cur[c])
           g == goto_next_sibling(fresh, c)
       IN  /\ heap' = r.heap
           /\ fresh' = g.heap
           /\ walk' = IF r.ok THEN [walk EXCEPT ![c] = get_next_sibling(walk[c])] ELSE walk
           /\ last' = Call("goto_next_sibling", c, TSNode(NullId), r.ok, g.ok)
    /\ UNCHANGED <<treeVars, ownerVars, rangeVars, pc, cur, seed, madeBy>>

\* c.goto_first_child();
GotoFirstChild(c) ==
    /\ cur[c] # 0
    /\ LET r == goto_first_child(heap, cur[c])
           g == goto_first_child(fresh, c)
       IN  /\ heap' = r.heap
           /\ fresh' = g.heap
           /\ walk' = IF r.ok THEN [walk EXCEPT ![c] = get_child(walk[c], 0)] ELSE walk
           /\ last' = Call("goto_first_child", c, TSNode(NullId), r.ok, g.ok)
    /\ UNCHANGED <<treeVars, ownerVars, rangeVars, pc, cur, seed, madeBy>>

\* No tree has been parsed and no tree wrapper is in scope.
NoTrees ==
    /\ store = [h \in Handles |-> [len |-> 0, by |-> "none", deletes |-> 0]]
    /\ made = 0
    /\ tw = [w \in Trees |-> [alive |-> FALSE, impl |-> 0]]

NoRange ==
    /\ text = <<>>
    /\ span = [start |-> 0, end |-> 0]

NoCursors ==
    /\ heap = NoHeap
    /\ cur = [c \in Cursors |-> 0]
    /\ seed = [c \in Cursors |-> TSNode(NullId)]
    /\ fresh = [c \in Cursors |-> <<>>]
    /\ walk = [c \in Cursors |-> TSNode(NullId)]
    /\ madeBy = [c \in Cursors |-> "none"]

PlainTree ==
    /\ kind = [k \in Nodes |-> "plain"]
    /\ field = [k \in Nodes |-> 0]

InitCursor ==
    /\ parent \in TreeShapes
    /\ PlainTree
    /\ NoCursors
    /\ NoTrees
    /\ NoRange
    /\ pc = "run"
    /\ last = NoCall

NextCursor ==
    \/ \E c \in Cursors, n \in Nodes : GetCursor(c, TSNode(n))
    \/ \E c \in Cursors, d \in Cursors : Copy(c, d)
    \/ \E c \in Cursors : Destroy(c)
    \/ \E c \in Cursors, n \in Nodes : Reset(c, TSNode(n))
    \/ \E c \in Cursors : GotoParent(c)
    \/ \E c \in Cursors : GotoNextSibling(c)
    \/ \E c \in Cursors : GotoFirstChild(c)

SpecCursor == InitCursor /\ [][NextCursor]_vars

-----------------------------------------------------------------------------
(* Claims about the cursor, checked under SpecCursor. *)

NavOps == {"goto_parent", "goto_next_sibling", "goto_first_child"}

Current(c) == get_current_node(heap, cur[c])

\* C1: when a cursor stands on the node it was most recently seeded at (by
\* get_cursor / construction or by the latest reset), goto_parent() returns
\* false and the current node is the same before and after the call, also
\* when that node has ancestors in the tree.
C1_GotoParentStopsAtSeed ==
    (last.op = "goto_parent" /\ last.pre = seed[last.c])
        => (last.ret = FALSE /\ Current(last.c) = last.pre)

\* C1 witness: goto_parent() was just refused on a cursor re-seeded by reset
\* at a node below the root.
C1_Witness ==
    /\ last.op = "goto_parent"
    /\ last.pre = seed[last.c]
    /\ madeBy[last.c] = "reset_after_steps"
    /\ ~is_null(get_parent(seed[last.c]))
    /\ last.ret = FALSE

\* C2: a call on one cursor leaves every other live cursor's position stack
\* (its current node and its ancestor/scope state) as it was, copies included,
\* in both directions; and right after d = c.copy() both report the same
\* current node, the one c reported before.
C2_CopyIsIndependent ==
    [][/\ \A c \in Cursors :
            (cur[c] # 0 /\ cur'[c] # 0 /\ last'.c # c)
                => (heap'[cur'[c]] = heap[cur[c]] /\ cur'[c] = cur[c])
       /\ last'.op = "copy" =>
            /\ get_current_node(heap', cur'[last'.c]) = last'.pre
            /\ get_current_node(heap', cur'[last'.src]) = last'.pre
      ]_vars

\* C2 witness: a cursor made by copy() has just taken a successful step while
\* the cursor it was copied from is alive and stands elsewhere.
C2_Witness ==
    /\ last.op \in NavOps
    /\ last.ret = TRUE
    /\ madeBy[last.c] = "copy"
    /\ \E c \in Cursors \ {last.c} : cur[c] # 0 /\ Current(c) = last.pre

\* C5: after any sequence of cursor steps that returned true, the id of the
\* cursor's current node is the id of the node reached from the seed by the
\* corresponding node operations (get_child(0), get_next_sibling, get_parent).
C5_CursorAgreesWithNodes ==
    \A c \in Cursors : cur[c] # 0 => get_id(Current(c)) = get_id(walk[c])

\* C5 witness: a cursor seeded at the root took one goto_first_child step and
\* stands on the node root.get_child(0) names.
C5_Witness ==
    /\ last.op = "goto_first_child"
    /\ last.ret = TRUE
    /\ last.pre = ts_tree_root_node
    /\ seed[last.c] = ts_tree_root_node
    /\ get_id(Current(last.c)) = get_id(get_child(ts_tree_root_node, 0))

\* C6: after reset(n) the current node is n, and from then on every
\* navigation call returns the boolean and reaches the node it does on a
\* cursor newly obtained from n.get_cursor().
C6_ResetEqualsFreshCursor ==
    /\ \A c \in Cursors : cur[c] # 0 => Current(c) = TSNode(Top(fresh[c]))
    /\ last.op \in NavOps => last.ret = last.fret
    /\ last.op = "reset" => Current(last.c) = last.n

\* C6 witness: a cursor that was reset after having moved away from its
\* former seed has taken a successful step.
C6_Witness ==
    /\ last.op \in NavOps
    /\ last.ret = TRUE
    /\ madeBy[last.c] = "reset_after_steps"

\* C10: goto_first_child() returns false exactly when the current node has no
\* children, goto_next_sibling() exactly when the current node is the last
\* sibling or the cursor's seed; a step that returns false leaves the whole
\* cursor state as it was, and a step that returns true changes the current
\* node.
C10_FailedStepIsNoOp ==
    [][last'.op \in {"goto_first_child", "goto_next_sibling"} =>
        LET c == last'.c IN
        /\ last'.ret = FALSE => (heap' = heap /\ cur' = cur)
        /\ last'.ret = TRUE => get_current_node(heap', cur'[c]) # Current(c)
        /\ last'.op = "goto_first_child" =>
              (last'.ret = FALSE <=> get_num_children(Current(c)) = 0)
        /\ last'.op = "goto_next_sibling" =>
              (last'.ret = FALSE <=>
                  (is_null(get_next_sibling(Current(c))) \/ Current(c) = seed[c]))
      ]_vars

\* C10 witness: goto_next_sibling() was just refused on the seed node although
\* the tree has a next sibling for it.
C10_Witness ==
    /\ last.op = "goto_next_sibling"
    /\ last.ret = FALSE
    /\ last.pre = seed[last.c]
    /\ ~is_null(get_next_sibling(last.pre))

-----------------------------------------------------------------------------
(* class tree and class parser: the owning wrappers.  A wrapper holds its
   handle in a std::unique_ptr whose deleter is ts_tree_delete. *)

Buffers == UNION {[1..k -> Bytes] : k \in 0..MaxLen}

\* Engine: parse a buffer; every call hands out a new tree handle.
ts_parser_parse_string(st, m, buf) ==
    [handle |-> m + 1,
     store |-> [st EXCEPT ![m + 1] = [len |-> Len(buf), by |-> "none", deletes |-> 0]]]

\* Engine: release a tree handle.
ts_tree_delete(st, h) == [st EXCEPT ![h].deletes = @ + 1]

\* Engine: byte range of the root node of a tree handle.
ts_root_byte_range(st, h) == [start |-> 0, end |-> st[h].len]

\* std::string_view::front() on the argument, taken by address: defined for
\* a non-empty view; on an empty view the call is undefined behaviour, which
\* a build either lets through (the address of data()) or traps (a library
\* built with assertions terminates the process).
front_address(v) == IF v = <<>> THEN {"pointer", "abort"} ELSE {"pointer"}

\* tree::tree(TSTree *)
tree_ctor(t, w, h) == [t EXCEPT ![w] = [alive |-> TRUE, impl |-> h]]

\* A move that leaves the source wrapper holding the handle (a copy).
tree_move_keeping_source(t, from, to) ==
    [t EXCEPT ![to] = [alive |-> TRUE, impl |-> t[from].impl]]

\* tree's implicit move constructor: unique_ptr's move takes the handle and
\* leaves the source holding null.
tree_move(t, from, to) ==
    [t EXCEPT ![to] = [alive |-> TRUE, impl |-> t[from].impl], ![from].impl = 0]

\* tree's implicit destructor: unique_ptr calls the deleter on a non-null handle.
tree_dtor(t, st, w) ==
    [tw |-> [t EXCEPT ![w] = [alive |-> FALSE, impl |-> 0]],
     store |-> IF t[w].impl # 0 THEN ts_tree_delete(st, t[w].impl) ELSE st]

\* tree::get_root_node
get_root_node(t, w) == IF t[w].impl = 0 THEN TSNode(NullId) ELSE ts_tree_root_node

TreeCall(op, w, len, result, h) ==
    [op |-> op, w |-> w, len |-> len, result |-> result, h |-> h]

\* tree w = parser.parse_string(buf);
ParseString(w, buf) ==
    /\ pc = "run"
    /\ ~tw[w].alive
    /\ made < MaxTrees
    /\ \E o \in front_address(buf) :
        IF o = "abort"
        THEN /\ pc' = "abort"
             /\ last' = TreeCall("parse_string", w, Len(buf), "abort", 0)
             /\ UNCHANGED ownerVars
        ELSE LET r == ts_parser_parse_string(store, made, buf)
             IN  /\ store' = [r.store EXCEPT ![r.handle].by = w]
                 /\ made' = r.handle
                 /\ tw' = tree_ctor(tw, w, r.handle)
                 /\ last' = TreeCall("parse_string", w, Len(buf), "tree", r.handle)
                 /\ pc' = pc
    /\ UNCHANGED <<treeVars, cursorVars, rangeVars>>

\* tree to(std::move(from));
MoveConstruct(from, to) ==
    /\ pc = "run"
    /\ tw[from].alive
    /\ ~tw[to].alive
    /\ tw' = tree_move(tw, from, to)
    /\ last' = TreeCall("move", to, 0, "ok", tw[from].impl)
    /\ UNCHANGED <<treeVars, cursorVars, rangeVars, store, made, pc>>

\* to = std::move(from);  unique_ptr's move assignment is reset(from.release()).
MoveAssign(from, to) ==
    /\ pc = "run"
    /\ tw[from].alive
    /\ tw[to].alive
    /\ LET released == tw[from].impl
           t1 == [tw EXCEPT ![from].impl = 0]
           old == t1[to].impl
       IN  /\ tw' = [t1 EXCEPT ![to].impl = released]
           /\ store' = IF old # 0 THEN ts_tree_delete(store, old) ELSE store
           /\ last' = TreeCall("move_assign", to, 0, "ok", released)
    /\ UNCHANGED <<treeVars, cursorVars, rangeVars, made, pc>>

\* w goes out of scope.
DestroyTree(w) ==
    /\ pc = "run"
    /\ tw[w].alive
    /\ LET r == tree_dtor(tw, store, w)
       IN  /\ tw' = r.tw
           /\ store' = r.store
    /\ last' = TreeCall("destroy", w, 0, "ok", tw[w].impl)
    /\ UNCHANGED <<treeVars, cursorVars, rangeVars, made, pc>>

InitTree ==
    /\ parent = [k \in Nodes |-> k - 1]
    /\ PlainTree
    /\ NoCursors
    /\ NoTrees
    /\ NoRange
    /\ pc = "run"
    /\ last = TreeCall("none", "t1", 0, "ok", 0)

NextTree ==
    \/ \E w \in Trees, buf \in Buffers : ParseString(w, buf)
    \/ \E from \in Trees, to \in Trees : MoveConstruct(from, to)
    \/ \E from \in Trees, to \in Trees : MoveAssign(from, to)
    \/ \E w \in Trees : DestroyTree(w)

SpecTree == InitTree /\ [][NextTree]_vars

Owners(h) == {w \in Trees : tw[w].alive /\ tw[w].impl = h}

\* C3: every tree handle a parse returned is held by at most one tree wrapper
\* at any moment; ts_tree_delete has been called on it never while a wrapper
\* holds it and exactly once when none does, so exactly once by the time all
\* wrappers are destroyed.
C3_TreeOwnedOnceDeletedOnce ==
    \A h \in 1..made :
        /\ Cardinality(Owners(h)) <= 1
        /\ store[h].deletes = IF Owners(h) = {} THEN 1 ELSE 0

\* C3 witness: all wrappers are gone, the last one to go released a handle
\* that had been moved to it from the wrapper the parse returned it in.
C3_Witness ==
    /\ last.op = "destroy"
    /\ last.h # 0
    /\ store[last.h].by # last.w
    /\ store[last.h].deletes = 1
    /\ \A w \in Trees : ~tw[w].alive

\* C4 (as claimed): every parse_string call, the empty buffer included,
\* returns a tree that holds engine storage and has a non-null root (byte
\* range [0,0] for the empty buffer); no call fails.
C4_ParseAlwaysYieldsRoot ==
    /\ pc = "run"
    /\ last.op = "parse_string" =>
        /\ last.result = "tree"
        /\ tw[last.w].impl # 0
        /\ ~is_null(get_root_node(tw, last.w))
        /\ last.len = 0 =>
              ts_root_byte_range(store, tw[last.w].impl) = [start |-> 0, end |-> 0]

-----------------------------------------------------------------------------
(* struct node: structural absence.  Field names are texts; the grammar of
   the model names its fields "a" and "b". *)

FieldNames == << <<"a">>, <<"b">> >>
FieldIds == 0..Len(FieldNames)

NodeOut(n) == [kind |-> "node", node |-> n]
TextOut(v) == [kind |-> "text", text |-> v]
AbortOut == [kind |-> "abort"]

\* Engine: the field name of child i of n as a C string; "NULL" when the
\* child has no field (or there is no such child).
ts_node_field_name_for_child(n, i) ==
    LET c == ts_node_child(n, i)
    IN  IF is_null(c) \/ field[c.id] = 0 THEN "NULL" ELSE FieldNames[field[c.id]]

\* Engine: the first child of n carrying the field called name; null if none.
ts_node_child_by_field_name(n, name) ==
    LET having == {c \in Kids(n.id) : field[c] # 0 /\ FieldNames[field[c]] = name}
    IN  IF having = {} THEN TSNode(NullId)
        ELSE TSNode(CHOOSE c \in having : \A d \in having : c <= d)

\* std::string_view(const char *): the text up to the terminator; on a null
\* pointer the length computation is undefined behaviour, which a build
\* ends with a fault or, if it reads nothing, with an empty view.
string_view_of(p) == IF p = "NULL" THEN {AbortOut, TextOut(<<>>)} ELSE {TextOut(p)}

\* node::get_field_name_for_child
get_field_name_for_child(n, child_position) ==
    string_view_of(ts_node_field_name_for_child(n, child_position))

\* node::get_child_by_field_name
get_child_by_field_name(n, name) ==
    {IF o = "abort" THEN AbortOut ELSE NodeOut(ts_node_child_by_field_name(n, name)) :
        o \in front_address(name)}

NodeCall(op, n, i, name, out) == [op |-> op, n |-> n, i |-> i, name |-> name, out |-> out]

Returned(call) ==
    /\ last' = call
    /\ pc' = IF call.out.kind = "abort" THEN "abort" ELSE pc
    /\ UNCHANGED <<treeVars, cursorVars, ownerVars, rangeVars>>

\* n.get_parent();
CallGetParent(n) ==
    /\ pc = "run"
    /\ Returned(NodeCall("get_parent", n, 0, <<>>, NodeOut(get_parent(n))))

\* n.get_next_sibling();
CallGetNextSibling(n) ==
    /\ pc = "run"
    /\ Returned(NodeCall("get_next_sibling", n, 0, <<>>, NodeOut(get_next_sibling(n))))

\* n.get_previous_sibling();
CallGetPreviousSibling(n) ==
    /\ pc = "run"
    /\ Returned(NodeCall("get_previous_sibling", n, 0, <<>>,
                         NodeOut(get_previous_sibling(n))))

\* n.get_child_by_field_name(name);
CallGetChildByFieldName(n, name) ==
    /\ pc = "run"
    /\ \E out \in get_child_by_field_name(n, name) :
            Returned(NodeCall("get_child_by_field_name", n, 0, name, out))

\* n.get_field_name_for_child(i);
CallGetFieldNameForChild(n, i) ==
    /\ pc = "run"
    /\ \E out \in get_field_name_for_child(n, i) :
            Returned(NodeCall("get_field_name_for_child", n, i, <<>>, out))

InitNode ==
    /\ parent \in TreeShapes
    /\ kind = [k \in Nodes |-> "plain"]
    /\ field \in {f \in [Nodes -> FieldIds] : f[1] = 0}
    /\ NoCursors
    /\ NoTrees
    /\ NoRange
    /\ pc = "run"
    /\ last = NodeCall("none", TSNode(NullId), 0, <<>>, NodeOut(TSNode(NullId)))

NextNode ==
    \/ \E n \in Nodes : CallGetParent(TSNode(n))
    \/ \E n \in Nodes : CallGetNextSibling(TSNode(n))
    \/ \E n \in Nodes : CallGetPreviousSibling(TSNode(n))
    \/ \E n \in Nodes, name \in Buffers : CallGetChildByFieldName(TSNode(n), name)
    \/ \E n \in Nodes, i \in 0..(MaxNodes - 1) : CallGetFieldNameForChild(TSNode(n), i)

SpecNode == InitNode /\ [][NextNode]_vars

Siblings(k) == IF parent[k] = 0 THEN {} ELSE Kids(parent[k]) \ {k}

\* C7 (as claimed): structural absence comes back as a null node or an empty
\* text and never as a fault: get_parent of the root, get_next_sibling of a
\* last sibling, get_previous_sibling of a first sibling,
\* get_child_by_field_name for a name no child carries, and
\* get_field_name_for_child(i) for a child without a field.
C7_AbsenceIsNullNeverFault ==
    LET k == last.n.id IN
    /\ (last.op = "get_parent" /\ parent[k] = 0) => last.out = NodeOut(TSNode(NullId))
    /\ (last.op = "get_next_sibling" /\ \A d \in Siblings(k) : d < k)
            => last.out = NodeOut(TSNode(NullId))
    /\ (last.op = "get_previous_sibling" /\ \A d \in Siblings(k) : d > k)
            => last.out = NodeOut(TSNode(NullId))
    /\ (last.op = "get_child_by_field_name"
            /\ \A c \in Kids(k) : field[c] = 0 \/ FieldNames[field[c]] # last.name)
            => last.out = NodeOut(TSNode(NullId))
    /\ (last.op = "get_field_name_for_child"
            /\ \E c \in Kids(k) : get_child(last.n, last.i) = TSNode(c) /\ field[c] = 0)
            => last.out = TextOut(<<>>)

-----------------------------------------------------------------------------
(* Error flags: tree::has_error, node::has_error, node::is_missing. *)

\* Engine: the node was inserted by error recovery for a missing token.
ts_node_is_missing(n) == kind[n.id] = "missing"

\* Engine: the node is a syntax-error node.
ts_node_is_error(n) == kind[n.id] = "error"

\* Engine: the flag the parser sets on a node that is, or has below it, a
\* syntax error or a missing node; computed bottom-up from the children.
RECURSIVE ts_node_has_error(_)
ts_node_has_error(n) ==
    \/ ts_node_is_error(n)
    \/ ts_node_is_missing(n)
    \/ \E c \in Kids(n.id) : ts_node_has_error(TSNode(c))

\* node::is_missing
is_missing(n) == ts_node_is_missing(n)

\* node::has_error
has_error(n) == ts_node_has_error(n)

\* A has_error that asks the root only whether it is a missing node.
tree_has_error_root_missing(t, w) == is_missing(get_root_node(t, w))

\* tree::has_error
tree_has_error(t, w) == has_error(get_root_node(t, w))

FlagCall(op, n, ret) == [op |-> op, n |-> n, ret |-> ret]

FlagReturned(call) ==
    /\ last' = call
    /\ UNCHANGED <<treeVars, cursorVars, ownerVars, rangeVars, pc>>

\* t.has_error();
CallTreeHasError(w) ==
    /\ pc = "run"
    /\ tw[w].alive
    /\ tw[w].impl # 0
    /\ FlagReturned(FlagCall("tree_has_error", get_root_node(tw, w), tree_has_error(tw, w)))

\* n.has_error();
CallHasError(n) ==
    /\ pc = "run"
    /\ FlagReturned(FlagCall("has_error", n, has_error(n)))

\* n.is_missing();
CallIsMissing(n) ==
    /\ pc = "run"
    /\ FlagReturned(FlagCall("is_missing", n, is_missing(n)))

\* The state after tree t1 = parser.parse_string(...), for every tree the
\* engine may have built.
InitErr ==
    /\ parent \in TreeShapes
    /\ kind \in [Nodes -> {"plain", "missing", "error"}]
    /\ field = [k \in Nodes |-> 0]
    /\ NoCursors
    /\ store = [h \in Handles |-> [len |-> 0, by |-> IF h = 1 THEN "t1" ELSE "none",
                                    deletes |-> 0]]
    /\ made = 1
    /\ tw = tree_ctor([w \in Trees |-> [alive |-> FALSE, impl |-> 0]], "t1", 1)
    /\ NoRange
    /\ pc = "run"
    /\ last = FlagCall("none", TSNode(NullId), FALSE)

NextErr ==
    \/ \E w \in Trees : CallTreeHasError(w)
    \/ \E n \in Nodes : CallHasError(TSNode(n))
    \/ \E n \in Nodes : CallIsMissing(TSNode(n))

SpecErr == InitErr /\ [][NextErr]_vars

RECURSIVE AncestorsOrSelf(_)
AncestorsOrSelf(k) == IF k = 0 THEN {} ELSE {k} \cup AncestorsOrSelf(parent[k])

ReachableFrom(n) == {k \in Nodes : n.id \in AncestorsOrSelf(k)}

\* C9: tree.has_error() equals get_root_node().has_error(), and it is true
\* exactly when some node reachable from the root is a missing node or a
\* syntax-error node.
C9_TreeErrorIsRootError ==
    \A w \in Trees : (tw[w].alive /\ tw[w].impl # 0) =>
        LET root == get_root_node(tw, w) IN
        /\ tree_has_error(tw, w) = has_error(root)
        /\ tree_has_error(tw, w) <=>
              \E k \in ReachableFrom(root) :
                  is_missing(TSNode(k)) \/ ts_node_is_error(TSNode(k))
        /\ last.op = "tree_has_error" => last.ret = tree_has_error(tw, w)

\* C9 witness: has_error() was just called on a tree whose root is neither
\* missing nor an error node, and returned true for a missing node below it.
C9_Witness ==
    /\ last.op = "tree_has_error"
    /\ last.ret = TRUE
    /\ kind[last.n.id] = "plain"
    /\ \E k \in Nodes : parent[k] # 0 /\ is_missing(TSNode(k))
    /\ \A k \in Nodes : ~ts_node_is_error(TSNode(k))

-----------------------------------------------------------------------------
(* node::get_byte_range and node::get_source_range. *)

Min(a, b) == IF a <= b THEN a ELSE b

\* std::string_view::substr(pos, count): throws std::out_of_range when
\* pos > size(), else the view of min(count, size() - pos) bytes from pos.
substr(v, pos, count) ==
    IF pos > Len(v) THEN [kind |-> "throw", what |-> "out_of_range"]
    ELSE TextOut(SubSeq(v, pos + 1, pos + Min(count, Len(v) - pos)))

\* node::get_byte_range
get_byte_range == [start |-> span.start, end |-> span.end]

\* node::get_source_range (the count is a uint32_t difference; the engine's
\* ranges have start <= end, so it does not wrap).
get_source_range(source) ==
    LET extents == get_byte_range
    IN  substr(source, extents.start, extents.end - extents.start)

\* n.get_source_range(source);
CallGetSourceRange(source) ==
    /\ pc = "run"
    /\ last' = [op |-> "get_source_range", source |-> source,
                out |-> get_source_range(source)]
    /\ UNCHANGED <<treeVars, cursorVars, ownerVars, rangeVars, pc>>

\* A node of a tree parsed from text: its byte range lies within the text.
InitRange ==
    /\ parent = [k \in Nodes |-> k - 1]
    /\ PlainTree
    /\ NoCursors
    /\ NoTrees
    /\ text \in Buffers
    /\ span \in {r \in [start : 0..MaxLen, end : 0..MaxLen] :
                    r.start <= r.end /\ r.end <= Len(text)}
    /\ pc = "run"
    /\ last = [op |-> "none", source |-> <<>>, out |-> TextOut(<<>>)]

NextRange == \E source \in Buffers : CallGetSourceRange(source)

SpecRange == InitRange /\ [][NextRange]_vars

\* C8 (as claimed): get_source_range never signals an error; given the
\* buffer the tree was parsed from it returns the bytes at [start, end) of the
\* node's byte range, and given any other buffer, also one shorter than the
\* node's start offset, it still returns some text.
C8_SourceRangeNeverFails ==
    last.op = "get_source_range" =>
        /\ last.out.kind = "text"
        /\ last.source = text =>
              last.out = TextOut([i \in 1..(span.end - span.start) |->
                                    text[span.start + i]])

====
